---- MODULE Spec2Model ----
(***************************************************************************)
(* A model of the Shortcut MCP server: the HTTP client wrapper             *)
(* (src/client.py) and the tool/resource handlers with the process         *)
(* start-up (src/server.py).                                               *)
(*                                                                         *)
(* Python and JSON values are tagged records, so that values of different  *)
(* types can be compared: None/null, int, str, list, dict.  Strings are    *)
(* TLA+ strings and f-strings are string concatenation.                    *)
(***************************************************************************)
EXTENDS Integers, Sequences, FiniteSets, TLC

VARIABLES
    pc,          \* the process: "boot" (module loaded), "serving" (mcp.run()), "crashed"
    env,         \* the process environment read by os.getenv
    client,      \* the module-level handle `client` of server.py: None or a ShortcutClient
    inv,         \* one record per handler invocation slot of the host
    transports,  \* number of httpx.AsyncClient transports currently open
    errlog       \* the logger.error records written at start-up

vars == <<pc, env, client, inv, transports, errlog>>

-----------------------------------------------------------------------------
(* Bounds of the model *)

\* entity ids passed to get_* and update_story range over 0..MaxId
MaxId == 1
\* longest list passed as labels
MaxListLen == 2
\* longest "data" list of a search response
MaxResults == 3

-----------------------------------------------------------------------------
(* Program constants *)

\* timeout=30.0 of every httpx call
Timeout == 30
\* "page_size": 25 of search_stories
PageSize == 25

-----------------------------------------------------------------------------
(* Values *)

JNull == [k |-> "null"]
JInt(n) == [k |-> "int", i |-> n]
JStr(s) == [k |-> "str", s |-> s]
JList(l) == [k |-> "list", l |-> l]
JDict(d) == [k |-> "dict", d |-> d]

\* Python truthiness, as tested by `if x:` and `not x`
Truthy(v) ==
    CASE v.k = "null" -> FALSE
      [] v.k = "int"  -> v.i # 0
      [] v.k = "str"  -> v.s # ""
      [] v.k = "list" -> v.l # <<>>
      [] v.k = "dict" -> DOMAIN v.d # {}

\* `x is not None`
IsNotNone(v) == v.k # "null"

\* str(x) / the {x} of an f-string, for the values that get formatted
Format(v) ==
    CASE v.k = "null" -> "None"
      [] v.k = "int"  -> ToString(v.i)
      [] v.k = "str"  -> v.s
      [] OTHER        -> "<object>"

\* the result of a Python call: a returned value or a raised exception
Ok(v) == [ok |-> TRUE, v |-> v]
Raise(type, msg) == [ok |-> FALSE, exc |-> type, msg |-> msg]

\* sequences over S of length at most n
RECURSIVE SeqsUpTo(_, _)
SeqsUpTo(S, n) ==
    IF n = 0 THEN {<<>>}
    ELSE LET shorter == SeqsUpTo(S, n - 1)
         IN  shorter \cup {Append(s, x) : s \in {q \in shorter : Len(q) = n - 1}, x \in S}

-----------------------------------------------------------------------------
(* src/client.py *)

\* ShortcutClient.__init__
ShortcutClient(api_url, api_token, user_agent) ==
    [ api_token |-> api_token,
      base_url  |-> api_url,
      headers   |-> [ ContentType   |-> JStr("application/json"),
                      ShortcutToken |-> api_token,
                      UserAgent     |-> user_agent ] ]

\* mutant: the httpx calls made without their timeout argument
HttpRequest_M(c, method, endpoint, payload) ==
    LET base == [ method  |-> method,
                  url     |-> Format(c.base_url) \o endpoint,
                  headers |-> c.headers ]
    IN  CASE method = "GET"             -> base @@ [params |-> payload]
          [] method \in {"POST", "PUT"} -> base @@ [json |-> payload]
          [] OTHER                      -> base

\* The request a client method hands to httpx: get passes params, post and
\* put pass json, delete neither; all pass self.headers and timeout=30.0.
HttpRequest(c, method, endpoint, payload) ==
    LET base == [ method  |-> method,
                  url     |-> Format(c.base_url) \o endpoint,
                  headers |-> c.headers,
                  timeout |-> Timeout ]
    IN  CASE method = "GET"             -> base @@ [params |-> payload]
          [] method \in {"POST", "PUT"} -> base @@ [json |-> payload]
          [] OTHER                      -> base

\* The outcomes of an httpx call: a transport error (connection failure,
\* timeout) or a response with a status and a body that parses as JSON or not.
TransportError(exc, msg) == [kind |-> "error", exc |-> exc, msg |-> msg]
Response(status, body) == [kind |-> "response", status |-> status, body |-> body]
Parsable(v) == [json |-> TRUE, v |-> v]
Unparsable == [json |-> FALSE]

\* mutant: raise_for_status() raising for 4xx and 5xx only
Is2xx_M(status) == status < 400
\* Response.is_success, the test of raise_for_status()
Is2xx(status) == status >= 200 /\ status <= 299

\* the message of the HTTPStatusError raised by raise_for_status()
StatusMessage(status, url) ==
    LET class == CASE status < 200 -> "Informational response"
                   [] status < 400 -> "Redirect response"
                   [] status < 500 -> "Client error"
                   [] OTHER        -> "Server error"
    IN  class \o " '" \o ToString(status) \o "' for url '" \o url \o "'"

\* the HTTPStatusError raised by raise_for_status(): it holds the response,
\* that is its status and its body
HTTPStatusError(response, url) ==
    [ ok |-> FALSE, exc |-> "HTTPStatusError",
      msg |-> StatusMessage(response.status, url), response |-> response ]

\* What a client method does with the outcome of its httpx call:
\* the transport error propagates; raise_for_status(); then response.json()
\* (get, post, put) or response.status_code (delete).
ClientResult(req, outcome) ==
    IF outcome.kind = "error"
    THEN Raise(outcome.exc, outcome.msg)
    ELSE IF ~Is2xx(outcome.status)
    THEN HTTPStatusError(outcome, req.url)
    ELSE IF req.method = "DELETE"
    THEN Ok(JInt(outcome.status))
    ELSE IF ~outcome.body.json
    THEN Raise("JSONDecodeError", "Expecting value: line 1 column 1 (char 0)")
    ELSE Ok(outcome.body.v)

-----------------------------------------------------------------------------
(* src/server.py: request construction of the handlers *)

ListHandlers ==
    { "list_members", "list_stories", "list_epics", "list_milestones",
      "list_projects", "list_workflows", "list_iterations", "list_labels",
      "list_teams" }
GetHandlers ==
    { "get_member", "get_story", "get_epic", "get_milestone", "get_project",
      "get_workflow", "get_iteration" }
MutationHandlers ==
    { "create_story", "update_story", "create_epic", "create_milestone",
      "create_iteration", "create_label" }
Handlers == ListHandlers \cup GetHandlers \cup {"search_stories"} \cup MutationHandlers

\* mutant: the epics handlers naming the singular path
Collection_M(h) ==
    CASE h \in {"list_members", "get_member"}       -> "/members"
      [] h \in {"list_stories", "get_story"}        -> "/stories"
      [] h \in {"list_epics", "get_epic"}           -> "/epic"
      [] h \in {"list_milestones", "get_milestone"} -> "/milestones"
      [] h \in {"list_projects", "get_project"}     -> "/projects"
      [] h \in {"list_workflows", "get_workflow"}   -> "/workflows"
      [] h \in {"list_iterations", "get_iteration"} -> "/iterations"
      [] h = "list_labels"                          -> "/labels"
      [] h = "list_teams"                           -> "/teams"

\* the collection path each list_* / get_* handler names
Collection(h) ==
    CASE h \in {"list_members", "get_member"}       -> "/members"
      [] h \in {"list_stories", "get_story"}        -> "/stories"
      [] h \in {"list_epics", "get_epic"}           -> "/epics"
      [] h \in {"list_milestones", "get_milestone"} -> "/milestones"
      [] h \in {"list_projects", "get_project"}     -> "/projects"
      [] h \in {"list_workflows", "get_workflow"}   -> "/workflows"
      [] h \in {"list_iterations", "get_iteration"} -> "/iterations"
      [] h = "list_labels"                          -> "/labels"
      [] h = "list_teams"                           -> "/teams"

\* d[key] = v on a dict
Put(d, key, v) == [x \in DOMAIN d \cup {key} |-> IF x = key THEN v ELSE d[x]]
\* if c: d[key] = v
PutIf(c, d, key, v) == IF c THEN Put(d, key, v) ELSE d

\* mutant: data["labels"] = labels, the names sent as they came
LabelObjects_M(labels) == labels
\* [{"name": label} for label in labels]
LabelObjects(labels) ==
    JList([i \in 1..Len(labels.l) |-> JDict([name |-> labels.l[i]])])

\* mutant: create_story testing `estimate is not None`
CreateIncludesEstimate_M(estimate) == IsNotNone(estimate)
\* mutant: update_story testing `if estimate:`
UpdateIncludesEstimate_M(estimate) == Truthy(estimate)
\* the inclusion test of estimate in create_story: `if estimate:`
CreateIncludesEstimate(estimate) == Truthy(estimate)
\* the inclusion test of estimate in update_story: `if estimate is not None:`
UpdateIncludesEstimate(estimate) == IsNotNone(estimate)

\* mutant: create_story putting description in the dict literal, as
\* create_iteration does with its dates
CreateStoryData_M(a) ==
    LET d1 == [name |-> a.name, description |-> a.description]
        d2 == PutIf(Truthy(a.project_id), d1, "project_id", a.project_id)
        d3 == PutIf(Truthy(a.workflow_state_id), d2, "workflow_state_id", a.workflow_state_id)
        d4 == PutIf(Truthy(a.epic_id), d3, "epic_id", a.epic_id)
        d5 == PutIf(CreateIncludesEstimate(a.estimate), d4, "estimate", a.estimate)
        d6 == PutIf(Truthy(a.labels), d5, "labels", LabelObjects(a.labels))
        d7 == PutIf(Truthy(a.owner_ids), d6, "owner_ids", a.owner_ids)
    IN  JDict(d7)

\* create_story: data
CreateStoryData(a) ==
    LET d0 == [name |-> a.name]
        d1 == PutIf(Truthy(a.description), d0, "description", a.description)
        d2 == PutIf(Truthy(a.project_id), d1, "project_id", a.project_id)
        d3 == PutIf(Truthy(a.workflow_state_id), d2, "workflow_state_id", a.workflow_state_id)
        d4 == PutIf(Truthy(a.epic_id), d3, "epic_id", a.epic_id)
        d5 == PutIf(CreateIncludesEstimate(a.estimate), d4, "estimate", a.estimate)
        d6 == PutIf(Truthy(a.labels), d5, "labels", LabelObjects(a.labels))
        d7 == PutIf(Truthy(a.owner_ids), d6, "owner_ids", a.owner_ids)
    IN  JDict(d7)

\* update_story: data; the empty dict {} is the function with empty domain
UpdateStoryData(a) ==
    LET d0 == [x \in {} |-> JNull]
        d1 == PutIf(Truthy(a.name), d0, "name", a.name)
        d2 == PutIf(Truthy(a.description), d1, "description", a.description)
        d3 == PutIf(Truthy(a.project_id), d2, "project_id", a.project_id)
        d4 == PutIf(Truthy(a.workflow_state_id), d3, "workflow_state_id", a.workflow_state_id)
        d5 == PutIf(Truthy(a.epic_id), d4, "epic_id", a.epic_id)
        d6 == PutIf(UpdateIncludesEstimate(a.estimate), d5, "estimate", a.estimate)
        d7 == PutIf(Truthy(a.labels), d6, "labels", LabelObjects(a.labels))
        d8 == PutIf(Truthy(a.owner_ids), d7, "owner_ids", a.owner_ids)
    IN  JDict(d8)

\* create_epic: data
CreateEpicData(a) ==
    LET d0 == [name |-> a.name]
        d1 == PutIf(Truthy(a.description), d0, "description", a.description)
        d2 == PutIf(Truthy(a.milestone_id), d1, "milestone_id", a.milestone_id)
        d3 == PutIf(Truthy(a.state), d2, "state", a.state)
        d4 == PutIf(Truthy(a.start_date), d3, "start_date", a.start_date)
        d5 == PutIf(Truthy(a.end_date), d4, "deadline", a.end_date)
    IN  JDict(d5)

\* create_milestone: data
CreateMilestoneData(a) ==
    LET d0 == [name |-> a.name]
        d1 == PutIf(Truthy(a.description), d0, "description", a.description)
        d2 == PutIf(Truthy(a.start_date), d1, "started_at_override", a.start_date)
        d3 == PutIf(Truthy(a.end_date), d2, "completed_at_override", a.end_date)
    IN  JDict(d3)

\* mutant: create_iteration adding its dates only when given, as create_epic does
CreateIterationData_M(a) ==
    LET d0 == [name |-> a.name]
        d1 == PutIf(Truthy(a.start_date), d0, "start_date", a.start_date)
        d2 == PutIf(Truthy(a.end_date), d1, "end_date", a.end_date)
        d3 == PutIf(Truthy(a.description), d2, "description", a.description)
        d4 == PutIf(Truthy(a.group_ids), d3, "group_ids", a.group_ids)
    IN  JDict(d4)

\* create_iteration: data
CreateIterationData(a) ==
    LET d0 == [name |-> a.name, start_date |-> a.start_date, end_date |-> a.end_date]
        d1 == PutIf(Truthy(a.description), d0, "description", a.description)
        d2 == PutIf(Truthy(a.group_ids), d1, "group_ids", a.group_ids)
    IN  JDict(d2)

\* create_label: data
CreateLabelData(a) ==
    LET d0 == [name |-> a.name]
        d1 == PutIf(Truthy(a.description), d0, "description", a.description)
    IN  JDict(d1)

\* search_stories: params
SearchParams(a) == JDict([query |-> a.query, page_size |-> JInt(PageSize)])

\* mutant: update_story calling client.post like the create handlers
Method_M(h) == IF h \in MutationHandlers THEN "POST" ELSE "GET"
\* the client method each handler calls
Method(h) ==
    CASE h = "update_story"                 -> "PUT"
      [] h \in MutationHandlers             -> "POST"
      [] OTHER                              -> "GET"

\* the endpoint each handler passes to the client
Endpoint(h, a) ==
    CASE h \in ListHandlers     -> Collection(h)
      [] h \in GetHandlers      -> Collection(h) \o "/" \o Format(a.id)
      [] h = "search_stories"   -> "/search"
      [] h = "create_story"     -> "/stories"
      [] h = "update_story"     -> "/stories/" \o Format(a.story_id)
      [] h = "create_epic"      -> "/epics"
      [] h = "create_milestone" -> "/milestones"
      [] h = "create_iteration" -> "/iterations"
      [] h = "create_label"     -> "/labels"

\* mutant: the list handlers asking for a page, as search_stories does
Payload_M(h, a) ==
    CASE h = "search_stories"   -> SearchParams(a)
      [] h = "create_story"     -> CreateStoryData(a)
      [] h = "update_story"     -> UpdateStoryData(a)
      [] h = "create_epic"      -> CreateEpicData(a)
      [] h = "create_milestone" -> CreateMilestoneData(a)
      [] h = "create_iteration" -> CreateIterationData(a)
      [] h = "create_label"     -> CreateLabelData(a)
      [] h \in ListHandlers     -> JDict([page_size |-> JInt(PageSize)])
      [] OTHER                  -> JNull

\* the params (get) or data (post, put) each handler passes to the client
Payload(h, a) ==
    CASE h = "search_stories"   -> SearchParams(a)
      [] h = "create_story"     -> CreateStoryData(a)
      [] h = "update_story"     -> UpdateStoryData(a)
      [] h = "create_epic"      -> CreateEpicData(a)
      [] h = "create_milestone" -> CreateMilestoneData(a)
      [] h = "create_iteration" -> CreateIterationData(a)
      [] h = "create_label"     -> CreateLabelData(a)
      [] OTHER                  -> JNull

-----------------------------------------------------------------------------
(* src/server.py: what the handlers do with the client's result *)

\* v[key] for a str key
Subscript(v, key) ==
    CASE v.k = "dict" -> IF key \in DOMAIN v.d
                         THEN Ok(v.d[key])
                         ELSE Raise("KeyError", "'" \o key \o "'")
      [] v.k = "list" -> Raise("TypeError", "list indices must be integers or slices, not str")
      [] v.k = "null" -> Raise("TypeError", "'NoneType' object is not subscriptable")
      [] v.k = "int"  -> Raise("TypeError", "'int' object is not subscriptable")
      [] v.k = "str"  -> Raise("TypeError", "string indices must be integers")

\* `key in v` for a str key, on the values a response body can be
Contains(key, v) ==
    CASE v.k = "dict" -> Ok(key \in DOMAIN v.d)
      [] v.k = "list" -> Ok(\E i \in 1..Len(v.l) : v.l[i] = JStr(key))
      [] v.k = "null" -> Raise("TypeError", "argument of type 'NoneType' is not iterable")
      [] v.k = "int"  -> Raise("TypeError", "argument of type 'int' is not iterable")

\* mutant: the loop without its test of the entry's type
RECURSIVE FilterStories_M(_, _)
FilterStories_M(items, stories) ==
    IF items = <<>>
    THEN Ok(JList(stories))
    ELSE LET data == Subscript(Head(items), "data")
         IN  IF ~data.ok THEN data
             ELSE FilterStories_M(Tail(items), Append(stories, data.v))

\* the loop of search_stories over results["data"], stories being the list so far
RECURSIVE FilterStories(_, _)
FilterStories(items, stories) ==
    IF items = <<>>
    THEN Ok(JList(stories))
    ELSE LET item == Head(items)
             type == Subscript(item, "type")
             data == Subscript(item, "data")
         IN  IF ~type.ok THEN type
             ELSE IF type.v # JStr("story") THEN FilterStories(Tail(items), stories)
             ELSE IF ~data.ok THEN data
             ELSE FilterStories(Tail(items), Append(stories, data.v))

\* mutant: the test `if "data" in results:` without `and results["data"]`
SearchResult_M(results) ==
    LET has  == Contains("data", results)
        data == Subscript(results, "data")
    IN  IF ~has.ok THEN has
        ELSE IF ~has.v THEN Ok(JList(<<>>))
        ELSE IF ~data.ok THEN data
        ELSE IF data.v.k = "list" THEN FilterStories(data.v.l, <<>>)
        ELSE IF data.v.k = "null" THEN Raise("TypeError", "'NoneType' object is not iterable")
        ELSE IF data.v.k = "int" THEN Raise("TypeError", "'int' object is not iterable")
        ELSE Raise("TypeError", "string indices must be integers")

\* the body of the try block of search_stories after client.get returned results
SearchResult(results) ==
    LET has  == Contains("data", results)
        data == Subscript(results, "data")
    IN  IF ~has.ok THEN has
        ELSE IF ~has.v THEN Ok(JList(<<>>))
        ELSE IF ~data.ok THEN data
        ELSE IF ~Truthy(data.v) THEN Ok(JList(<<>>))
        ELSE IF data.v.k = "list" THEN FilterStories(data.v.l, <<>>)
        ELSE IF data.v.k = "int" THEN Raise("TypeError", "'int' object is not iterable")
        ELSE Raise("TypeError", "string indices must be integers")

\* mutant: `except httpx.HTTPStatusError`
CaughtByExcept_M(e) == e.exc = "HTTPStatusError"
\* mutant: `except httpx.HTTPError`, the errors of the HTTP exchange only
CaughtByExcept_H(e) == e.exc \in {"HTTPStatusError", "ConnectError", "ReadTimeout"}
\* `except Exception`: every error class but a BaseException such as a cancellation
CaughtByExcept(e) == e.exc \notin {"CancelledError", "KeyboardInterrupt", "SystemExit"}

\* mutant: the confirmations reading the URL with story.get('app_url') and
\* leaving it out when the response has none
Confirmation_M(h, a, body) ==
    LET id  == Subscript(body, "id")
        url == Subscript(body, "app_url")
        tail == IF url.ok THEN " and URL " \o Format(url.v) ELSE ""
    IN  CASE h = "create_story" ->
               IF ~id.ok THEN id
               ELSE Ok(JStr("Story created successfully with ID " \o Format(id.v) \o tail))
          [] h = "update_story" ->
               Ok(JStr("Story " \o Format(a.story_id) \o " updated successfully."
                       \o (IF url.ok THEN " URL: " \o Format(url.v) ELSE "")))
          [] h = "create_epic" ->
               IF ~id.ok THEN id
               ELSE Ok(JStr("Epic created successfully with ID " \o Format(id.v) \o tail))
          [] h = "create_milestone" ->
               IF ~id.ok THEN id
               ELSE Ok(JStr("Milestone created successfully with ID " \o Format(id.v)))
          [] h = "create_iteration" ->
               IF ~id.ok THEN id
               ELSE Ok(JStr("Iteration created successfully with ID " \o Format(id.v)))
          [] h = "create_label" ->
               IF ~id.ok THEN id
               ELSE Ok(JStr("Label '" \o Format(a.name) \o "' created successfully with ID "
                            \o Format(id.v)))

\* the success f-string of each create/update handler, given the decoded body
Confirmation(h, a, body) ==
    LET id  == Subscript(body, "id")
        url == Subscript(body, "app_url")
    IN  CASE h = "create_story" ->
               IF ~id.ok THEN id ELSE IF ~url.ok THEN url
               ELSE Ok(JStr("Story created successfully with ID " \o Format(id.v)
                            \o " and URL " \o Format(url.v)))
          [] h = "update_story" ->
               IF ~url.ok THEN url
               ELSE Ok(JStr("Story " \o Format(a.story_id)
                            \o " updated successfully. URL: " \o Format(url.v)))
          [] h = "create_epic" ->
               IF ~id.ok THEN id ELSE IF ~url.ok THEN url
               ELSE Ok(JStr("Epic created successfully with ID " \o Format(id.v)
                            \o " and URL " \o Format(url.v)))
          [] h = "create_milestone" ->
               IF ~id.ok THEN id
               ELSE Ok(JStr("Milestone created successfully with ID " \o Format(id.v)))
          [] h = "create_iteration" ->
               IF ~id.ok THEN id
               ELSE Ok(JStr("Iteration created successfully with ID " \o Format(id.v)))
          [] h = "create_label" ->
               IF ~id.ok THEN id
               ELSE Ok(JStr("Label '" \o Format(a.name) \o "' created successfully with ID "
                            \o Format(id.v)))

\* the prefix of the except branch of each create/update handler
ErrorMarker(h) ==
    CASE h = "create_story"     -> "Error creating story: "
      [] h = "update_story"     -> "Error updating story: "
      [] h = "create_epic"      -> "Error creating epic: "
      [] h = "create_milestone" -> "Error creating milestone: "
      [] h = "create_iteration" -> "Error creating iteration: "
      [] h = "create_label"     -> "Error creating label: "

\* a handler's outcome: what it returns or raises, and what it logged
Outcome(res, logged) == [res |-> res, logged |-> logged]

\* mutant: the read handlers answering from a copy kept of an earlier response
ReadResult_K(r) ==
    IF r.ok THEN Outcome(Ok(JDict([id |-> JInt(7), name |-> JStr("old")])), <<>>)
    ELSE Outcome(r, <<>>)
\* mutant: the read handlers answering a failure with an empty list
ReadResult_M(r) == IF r.ok THEN Outcome(r, <<>>) ELSE Outcome(Ok(JList(<<>>)), <<>>)
\* mutant: search_stories letting the failure through
SearchStoriesResult_M(r) == Outcome(IF r.ok THEN SearchResult(r.v) ELSE r, <<>>)
\* list_* and get_*: `return await client.get(...)`, no try block
ReadResult(r) == Outcome(r, <<>>)

\* search_stories, from the result r of client.get
SearchStoriesResult(r) ==
    LET tried == IF r.ok THEN SearchResult(r.v) ELSE r
    IN  IF tried.ok THEN Outcome(tried, <<>>)
        ELSE IF CaughtByExcept(tried)
        THEN Outcome(Ok(JList(<<>>)), <<"Error searching stories: " \o tried.msg>>)
        ELSE Outcome(tried, <<>>)

\* mutant: a create/update handler without its except branch
MutationResult_M(h, a, r) == Outcome(IF r.ok THEN Confirmation(h, a, r.v) ELSE r, <<>>)
\* a create/update handler, from the result r of client.post / client.put
MutationResult(h, a, r) ==
    LET tried == IF r.ok THEN Confirmation(h, a, r.v) ELSE r
    IN  IF tried.ok THEN Outcome(tried, <<>>)
        ELSE IF CaughtByExcept(tried)
        THEN Outcome(Ok(JStr(ErrorMarker(h) \o tried.msg)), <<>>)
        ELSE Outcome(tried, <<>>)

\* every handler, from the result r of its client call
HandlerResult(h, a, r) ==
    CASE h \in ListHandlers \cup GetHandlers -> ReadResult(r)
      [] h = "search_stories"                -> SearchStoriesResult(r)
      [] h \in MutationHandlers              -> MutationResult(h, a, r)

-----------------------------------------------------------------------------
(* Inputs: the environment, the arguments the host passes, what the remote answers *)

\* an optional parameter: absent (None), falsy, or the non-falsy value given
OptStr(s) == {JNull, JStr(""), JStr(s)}
OptInt(n) == {JNull, JInt(0), JInt(n)}
\* labels: absent, or the first n of label-1, label-2, ... (n = 0 is the empty list)
LabelSeq(n) == [i \in 1..n |-> JStr("label-" \o ToString(i))]
OptLabels == {JNull} \cup {JList(LabelSeq(n)) : n \in 0..MaxListLen}
\* owner_ids, group_ids: absent, empty, or the two ids given
OptIds(a, b) == {JNull, JList(<<>>), JList(<<JStr(a), JStr(b)>>)}

Names == {JStr(""), JStr("X")}
Queries == {JStr(""), JStr("foo")}
EntityIds == {JInt(i) : i \in 0..MaxId}
MemberIds == {JStr("m-" \o ToString(i)) : i \in 0..MaxId}

\* the arguments the host can pass to each handler
ArgSpace(h) ==
    CASE h \in ListHandlers -> {JNull}
      [] h = "get_member"   -> {[id |-> m] : m \in MemberIds}
      [] h \in GetHandlers  -> {[id |-> n] : n \in EntityIds}
      [] h = "search_stories" -> {[query |-> q] : q \in Queries}
      [] h = "create_story" ->
           [ name : Names, description : OptStr("desc"), project_id : OptInt(11),
             workflow_state_id : OptInt(22), epic_id : OptInt(33), estimate : OptInt(5),
             labels : OptLabels, owner_ids : OptIds("u-1", "u-2") ]
      [] h = "update_story" ->
           [ story_id : EntityIds, name : OptStr("X"), description : OptStr("desc"),
             project_id : OptInt(11), workflow_state_id : OptInt(22),
             epic_id : OptInt(33), estimate : OptInt(5),
             labels : OptLabels, owner_ids : OptIds("u-1", "u-2") ]
      [] h = "create_epic" ->
           [ name : Names, description : OptStr("desc"), milestone_id : OptInt(44),
             state : OptStr("to do"), start_date : OptStr("2025-01-06"),
             end_date : OptStr("2025-01-17") ]
      [] h = "create_milestone" ->
           [ name : Names, description : OptStr("desc"),
             start_date : OptStr("2025-01-06"), end_date : OptStr("2025-01-17") ]
      [] h = "create_iteration" ->
           [ name : Names, description : OptStr("desc"),
             start_date : OptStr("2025-01-06"), end_date : OptStr("2025-01-17"),
             group_ids : OptIds("g-1", "g-2") ]
      [] h = "create_label" ->
           [ name : Names, description : OptStr("desc") ]

\* the process environment: the token unset, empty or set; the URL set; the
\* user agent unset or set
EnvSpace ==
    [ SHORTCUT_API_TOKEN  : {JNull, JStr(""), JStr("tok")},
      SHORTCUT_API_URL    : {JStr("https://api.app.shortcut.com/api/v3")},
      SHORTCUT_USER_AGENT : {JNull, JStr("mcp-shortcut")} ]

\* a remote record
Entity(n) ==
    JDict([ id      |-> JInt(n),
            app_url |-> JStr("https://app.shortcut.com/x/" \o ToString(n)),
            name    |-> JStr("N") ])

\* bodies an entity endpoint can answer with: well-formed, a record without
\* id or without app_url, a list, null
EntityBodies ==
    { Entity(7),
      JDict([id |-> JInt(7), name |-> JStr("N")]),
      JDict([app_url |-> JStr("https://app.shortcut.com/x/7")]),
      JList(<<Entity(7), Entity(8)>>),
      JList(<<>>),
      JNull }

\* entries of a search result: stories, an epic, and entries of unexpected shape
SearchItems ==
    { JDict([type |-> JStr("story"), data |-> Entity(1)]),
      JDict([type |-> JStr("story"), data |-> Entity(2)]),
      JDict([type |-> JStr("epic"), data |-> Entity(3)]),
      JDict([data |-> Entity(4)]),
      JDict([type |-> JStr("story")]) }

\* bodies the search endpoint can answer with
SearchBodies ==
    { JDict([data |-> JList(l), total |-> JInt(Len(l))]) : l \in SeqsUpTo(SearchItems, MaxResults) }
      \cup { JDict([data |-> JNull]), JDict([total |-> JInt(0)]), JNull,
             JList(<<JStr("data")>>) }

Bodies(h) == IF h = "search_stories" THEN SearchBodies ELSE EntityBodies

\* what the httpx call of handler h can end with
Outcomes(h) ==
    { TransportError("ConnectError", "All connection attempts failed"),
      TransportError("ReadTimeout", "The read operation timed out"),
      Response(404, Parsable(JDict([message |-> JStr("Resource not found.")]))),
      Response(500, Unparsable),
      Response(200, Unparsable),
      Response(201, Parsable(Entity(9))) }
      \cup { Response(200, Parsable(b)) : b \in Bodies(h) }

\* httpx takes str (or bytes) header values only
HeadersAccepted(req) == \A n \in DOMAIN req.headers : req.headers[n].k = "str"

\* What the httpx call made with req can end with, S being what the remote
\* and the network can do: with a None header value httpx raises while it
\* builds the request and nothing reaches the network.
HttpxOutcomes(req, S) ==
    IF HeadersAccepted(req)
    THEN S
    ELSE { TransportError("TypeError",
                          "Header value must be str or bytes, not <class 'NoneType'>") }

-----------------------------------------------------------------------------
(* The process *)

Tasks == {"t1"}

NoOutcome == [kind |-> "none"]
NoResult == [pending |-> TRUE]
Idle ==
    [ phase |-> "idle", handler |-> "", args |-> JNull, sent |-> <<>>,
      outcome |-> NoOutcome, result |-> NoResult, logged |-> <<>> ]

\* mutant: `if api_token is None:`
TokenMissing_M(api_token) == api_token = JNull
\* `if not api_token:` of the start-up block
TokenMissing(api_token) == ~Truthy(api_token)

Init ==
    /\ pc = "boot"
    /\ env \in EnvSpace
    /\ client = JNull
    /\ inv = [t \in Tasks |-> Idle]
    /\ transports = 0
    /\ errlog = <<>>

\* the `if __name__ == "__main__":` block: read the environment, refuse to
\* start without a token, construct the client, run the server
Boot ==
    /\ pc = "boot"
    /\ LET api_token == env.SHORTCUT_API_TOKEN
           api_url   == env.SHORTCUT_API_URL
       IN  IF TokenMissing(api_token)
           THEN /\ errlog' = Append(errlog, "SHORTCUT_API_TOKEN environment variable not set")
                /\ pc' = "crashed"
                /\ UNCHANGED client
           ELSE /\ client' = ShortcutClient(api_url, api_token, env.SHORTCUT_USER_AGENT)
                /\ pc' = "serving"
                /\ UNCHANGED errlog
    /\ UNCHANGED <<env, inv, transports>>

\* mutant: mcp.run() started before the start-up block has assigned the handle
CanInvoke_M(t) == pc \in {"boot", "serving"} /\ inv[t].phase = "idle"
\* the host can dispatch a handler on slot t: the server runs and the slot is free
CanInvoke(t) == pc = "serving" /\ inv[t].phase = "idle"

\* mutant: the handlers keeping their request in one module-level variable
Store_M(f, t, rec) ==
    [u \in DOMAIN f |->
        IF u = t THEN rec
        ELSE IF f[u].phase = "awaiting" THEN [f[u] EXCEPT !.sent = rec.sent]
        ELSE f[u]]
\* The parameters and locals of a handler (data, params, story, results) live
\* in the frame of its own invocation: running invocation t writes slot t only.
Store(f, t, rec) == [f EXCEPT ![t] = rec]

\* mutant: update_story returning early when it has no field to send
HandlerCalls_S(c, h, a) ==
    IF h = "update_story" /\ DOMAIN Payload(h, a).d = {}
    THEN <<>>
    ELSE <<HttpRequest(c, Method(h), Endpoint(h, a), Payload(h, a))>>
\* mutant: the client method sending its request a second time
HandlerCalls_M(c, h, a) ==
    LET req == HttpRequest(c, Method(h), Endpoint(h, a), Payload(h, a))
    IN  <<req, req>>
\* The httpx calls of one invocation of handler h: the handler calls one
\* client method once, and the method makes one httpx call.
HandlerCalls(c, h, a) == <<HttpRequest(c, Method(h), Endpoint(h, a), Payload(h, a))>>

\* mutant: the client method adding a header to self.headers on each call
SelfAfterCall_M(c, req) == [c EXCEPT !.headers.ContentType = JStr("text/plain")]
\* The client after one of its methods was called: no method assigns a field
\* of self, and headers=self.headers is only read.
SelfAfterCall(c, req) == c

\* mutant: the transport closed after the return statement only
Released_M(n, r) == IF r.ok THEN n - 1 ELSE n
\* The open transports after a client method has ended with r: the
\* `async with httpx.AsyncClient()` block closes its transport on every exit.
Released(n, r) == n - 1

\* The host dispatches handler h with arguments a on slot t: the handler runs
\* up to the await of its httpx call.  With the handle still None the
\* attribute lookup client.get raises before any request is made.
Invoke(t, h, a) ==
    /\ IF client = JNull
       THEN LET out == HandlerResult(h, a,
                           Raise("AttributeError", "'NoneType' object has no attribute '"
                                                    \o (CASE Method(h) = "GET"  -> "get"
                                                          [] Method(h) = "POST" -> "post"
                                                          [] Method(h) = "PUT"  -> "put") \o "'"))
            IN  /\ inv' = Store(inv, t,
                              [ phase |-> IF out.res.ok THEN "returned" ELSE "raised",
                                handler |-> h, args |-> JNull, sent |-> <<>>,
                                outcome |-> NoOutcome, result |-> out.res,
                                logged |-> out.logged ])
                /\ UNCHANGED <<client, transports>>
       ELSE LET calls == HandlerCalls(client, h, a)
            IN  /\ inv' = Store(inv, t,
                              [ phase |-> "awaiting", handler |-> h, args |-> a,
                                sent |-> calls,
                                outcome |-> NoOutcome, result |-> NoResult, logged |-> <<>> ])
                /\ client' = SelfAfterCall(client, calls[Len(calls)])
                /\ transports' = transports + 1
    /\ UNCHANGED <<pc, env, errlog>>

ListEntities(t) ==
    /\ CanInvoke(t)
    /\ \E h \in ListHandlers : \E a \in ArgSpace(h) : Invoke(t, h, a)
GetEntity(t) ==
    /\ CanInvoke(t)
    /\ \E h \in GetHandlers : \E a \in ArgSpace(h) : Invoke(t, h, a)
SearchStories(t) ==
    /\ CanInvoke(t)
    /\ \E a \in ArgSpace("search_stories") : Invoke(t, "search_stories", a)
CreateStory(t) ==
    /\ CanInvoke(t)
    /\ \E a \in ArgSpace("create_story") : Invoke(t, "create_story", a)
UpdateStory(t) ==
    /\ CanInvoke(t)
    /\ \E a \in ArgSpace("update_story") : Invoke(t, "update_story", a)
CreateEpic(t) ==
    /\ CanInvoke(t)
    /\ \E a \in ArgSpace("create_epic") : Invoke(t, "create_epic", a)
CreateMilestone(t) ==
    /\ CanInvoke(t)
    /\ \E a \in ArgSpace("create_milestone") : Invoke(t, "create_milestone", a)
CreateIteration(t) ==
    /\ CanInvoke(t)
    /\ \E a \in ArgSpace("create_iteration") : Invoke(t, "create_iteration", a)
CreateLabel(t) ==
    /\ CanInvoke(t)
    /\ \E a \in ArgSpace("create_label") : Invoke(t, "create_label", a)

\* The httpx call of slot t ends with outcome o: the transport is closed, the
\* client method returns or raises, and the handler runs to its end.  The
\* handler's arguments are locals and are gone once it has ended.
Resume(t) ==
    /\ inv[t].phase = "awaiting"
    /\ LET req == inv[t].sent[Len(inv[t].sent)]
       IN  \E o \in HttpxOutcomes(req, Outcomes(inv[t].handler)) :
             LET r   == ClientResult(req, o)
                 out == HandlerResult(inv[t].handler, inv[t].args, r)
             IN  /\ inv' = Store(inv, t,
                               [ phase |-> IF out.res.ok THEN "returned" ELSE "raised",
                                 handler |-> inv[t].handler, args |-> JNull,
                                 sent |-> inv[t].sent, outcome |-> o,
                                 result |-> out.res, logged |-> out.logged ])
                 /\ transports' = Released(transports, r)
    /\ UNCHANGED <<pc, env, client, errlog>>

\* the host takes the handler's return value or exception; the slot is free again
Collect(t) ==
    /\ inv[t].phase \in {"returned", "raised"}
    /\ inv' = Store(inv, t, Idle)
    /\ UNCHANGED <<pc, env, client, transports, errlog>>

Next ==
    \/ Boot
    \/ \E t \in Tasks :
         \/ ListEntities(t)
         \/ GetEntity(t)
         \/ SearchStories(t)
         \/ CreateStory(t)
         \/ UpdateStory(t)
         \/ CreateEpic(t)
         \/ CreateMilestone(t)
         \/ CreateIteration(t)
         \/ CreateLabel(t)
         \/ Resume(t)
         \/ Collect(t)

Spec == Init /\ [][Next]_vars

-----------------------------------------------------------------------------
(* The client's four methods called directly, delete included, which no
   handler calls *)

ClientEndpoints == {"/stories", "/stories/1"}
ClientParams == {JNull, JDict([query |-> JStr("foo")])}
ClientData == {JDict([name |-> JStr("X")]), JDict([name |-> JStr("X"), estimate |-> JInt(0)])}

\* what the httpx call of a client method can end with
ClientOutcomes ==
    { TransportError("ConnectError", "All connection attempts failed"),
      Response(302, Unparsable),
      Response(404, Parsable(JDict([message |-> JStr("Resource not found.")]))),
      Response(500, Unparsable),
      Response(200, Parsable(Entity(1))),
      Response(200, Parsable(JList(<<>>))),
      Response(201, Parsable(Entity(9))),
      Response(204, Unparsable) }

\* a caller awaits client.<method>(endpoint, payload) on slot t: the method
\* runs up to the await of its httpx call
CallClient(t, method, endpoint, payload) ==
    LET req == HttpRequest(client, method, endpoint, payload)
    IN  /\ inv' = Store(inv, t,
                      [ phase |-> "awaiting", handler |-> "", args |-> JNull,
                        sent |-> <<req>>,
                        outcome |-> NoOutcome, result |-> NoResult, logged |-> <<>> ])
        /\ client' = SelfAfterCall(client, req)
        /\ transports' = transports + 1
        /\ UNCHANGED <<pc, env, errlog>>

ClientGet(t) ==
    /\ CanInvoke(t)
    /\ \E e \in ClientEndpoints : \E params \in ClientParams : CallClient(t, "GET", e, params)
ClientPost(t) ==
    /\ CanInvoke(t)
    /\ \E e \in ClientEndpoints : \E data \in ClientData : CallClient(t, "POST", e, data)
ClientPut(t) ==
    /\ CanInvoke(t)
    /\ \E e \in ClientEndpoints : \E data \in ClientData : CallClient(t, "PUT", e, data)
ClientDelete(t) ==
    /\ CanInvoke(t)
    /\ \E e \in ClientEndpoints : CallClient(t, "DELETE", e, JNull)

\* the httpx call of slot t ends with outcome o: the transport is closed and
\* the client method returns or raises
ClientReturn(t) ==
    /\ inv[t].phase = "awaiting"
    /\ LET req == inv[t].sent[Len(inv[t].sent)]
       IN  \E o \in HttpxOutcomes(req, ClientOutcomes) :
             LET r == ClientResult(req, o)
             IN  /\ inv' = Store(inv, t,
                               [ phase |-> IF r.ok THEN "returned" ELSE "raised",
                                 handler |-> "", args |-> JNull,
                                 sent |-> inv[t].sent, outcome |-> o,
                                 result |-> r, logged |-> <<>> ])
                 /\ transports' = Released(transports, r)
    /\ UNCHANGED <<pc, env, client, errlog>>

NextClient ==
    \/ Boot
    \/ \E t \in Tasks :
         \/ ClientGet(t)
         \/ ClientPost(t)
         \/ ClientPut(t)
         \/ ClientDelete(t)
         \/ ClientReturn(t)
         \/ Collect(t)

SpecClient == Init /\ [][NextClient]_vars

-----------------------------------------------------------------------------
(* Progress: an httpx call made with a timeout ends, with a response, a
   transport error or a timeout, and the event loop then resumes the handler *)

\* the httpx call of req cannot wait for ever: it was given a timeout
CallBounded(req) == "timeout" \in DOMAIN req

\* the resumption of slot t that the timeout guarantees
BoundedResume(t) ==
    /\ inv[t].phase = "awaiting"
    /\ CallBounded(inv[t].sent[Len(inv[t].sent)])
    /\ Resume(t)

\* the handlers of each kind: reads, the search with its loop over the
\* result set, and the creations with the smaller argument spaces
NextFair ==
    \/ Boot
    \/ \E t \in Tasks :
         \/ ListEntities(t)
         \/ GetEntity(t)
         \/ SearchStories(t)
         \/ CreateEpic(t)
         \/ CreateMilestone(t)
         \/ CreateIteration(t)
         \/ CreateLabel(t)
         \/ Resume(t)
         \/ Collect(t)

SpecFair == Init /\ [][NextFair]_vars /\ \A t \in Tasks : WF_vars(BoundedResume(t))

-----------------------------------------------------------------------------
(* Two invocations in flight at once: the host dispatches a second handler
   while the first is suspended at its await *)

ConcTasks == {"t1", "t2"}

InitConc ==
    /\ pc = "boot"
    /\ env \in EnvSpace
    /\ client = JNull
    /\ inv = [t \in ConcTasks |-> Idle]
    /\ transports = 0
    /\ errlog = <<>>

NextConc ==
    \/ Boot
    \/ \E t \in ConcTasks :
         \/ ListEntities(t)
         \/ GetEntity(t)
         \/ CreateLabel(t)
         \/ Resume(t)
         \/ Collect(t)

SpecConc == InitConc /\ [][NextConc]_vars

-----------------------------------------------------------------------------
(* Properties *)

Slots == DOMAIN inv
Awaiting(t) == inv[t].phase = "awaiting"
Ended(t) == inv[t].phase \in {"returned", "raised"}
\* the one request of slot t, and what its client call came to
Request(t) == inv[t].sent[1]
ClientCall(t) == ClientResult(Request(t), inv[t].outcome)
\* the handler of slot t ended after its client call failed
ClientFailed(t) == Ended(t) /\ inv[t].outcome # NoOutcome /\ ~ClientCall(t).ok

\* the optional parameters of each create/update handler
OptionalParams(h) ==
    CASE h = "create_story" ->
           {"description", "project_id", "workflow_state_id", "epic_id", "estimate",
            "labels", "owner_ids"}
      [] h = "update_story" ->
           {"name", "description", "project_id", "workflow_state_id", "epic_id",
            "estimate", "labels", "owner_ids"}
      [] h = "create_epic" -> {"description", "milestone_id", "state", "start_date", "end_date"}
      [] h = "create_milestone" -> {"description", "start_date", "end_date"}
      [] h = "create_iteration" -> {"description", "start_date", "end_date", "group_ids"}
      [] h = "create_label" -> {"description"}

\* the body key under which a parameter is sent
BodyKey(h, p) ==
    CASE h = "create_epic" /\ p = "end_date"        -> "deadline"
      [] h = "create_milestone" /\ p = "start_date" -> "started_at_override"
      [] h = "create_milestone" /\ p = "end_date"   -> "completed_at_override"
      [] OTHER                                      -> p

\* C1 as stated: in every create/update handler the body holds the key of an
\* optional parameter if and only if the parameter was given a non-falsy value.
C1_KeyIffNonFalsy ==
    \A t \in Slots :
        (Awaiting(t) /\ inv[t].handler \in MutationHandlers) =>
            \A p \in OptionalParams(inv[t].handler) :
                (BodyKey(inv[t].handler, p) \in DOMAIN Request(t).json.d)
                    <=> Truthy(inv[t].args[p])

\* the parameters whose inclusion is not decided by truthiness
AlwaysSent(h, p) == h = "create_iteration" /\ p \in {"start_date", "end_date"}
SentUnlessNone(h, p) == h = "update_story" /\ p = "estimate"

\* C1 amended: the body holds the key of an optional parameter if and only if
\* the parameter was given a non-falsy value, except that update_story sends
\* estimate whenever it is not None (0 included) and create_iteration always
\* sends start_date and end_date (null when absent).
C1_KeyIffNonFalsyExceptEstimateAndDates ==
    \A t \in Slots :
        (Awaiting(t) /\ inv[t].handler \in MutationHandlers) =>
            \A p \in OptionalParams(inv[t].handler) :
                (BodyKey(inv[t].handler, p) \in DOMAIN Request(t).json.d)
                    <=> IF AlwaysSent(inv[t].handler, p) THEN TRUE
                        ELSE IF SentUnlessNone(inv[t].handler, p)
                        THEN inv[t].args[p] # JNull
                        ELSE Truthy(inv[t].args[p])

\* create_story was given an empty description, a project id of 0 and a real
\* epic id: the body has the epic id and neither of the other two
C1_Witness ==
    \E t \in Slots :
        /\ Awaiting(t) /\ inv[t].handler = "create_story"
        /\ inv[t].args.description = JStr("") /\ inv[t].args.project_id = JInt(0)
        /\ inv[t].args.epic_id = JInt(33)
        /\ "epic_id" \in DOMAIN Request(t).json.d
        /\ "description" \notin DOMAIN Request(t).json.d
        /\ "project_id" \notin DOMAIN Request(t).json.d

\* the error marker the documentation gives: "Error creating ..." / "Error updating ..."
DocumentedMarker(h) ==
    "Error " \o (IF h = "update_story" THEN "updating " ELSE "creating ")
             \o (CASE h \in {"create_story", "update_story"} -> "story"
                   [] h = "create_epic"      -> "epic"
                   [] h = "create_milestone" -> "milestone"
                   [] h = "create_iteration" -> "iteration"
                   [] h = "create_label"     -> "label")
             \o ": "

\* C2: when the client call of a create/update handler fails (transport
\* error, non-2xx response, undecodable body), the handler returns the string
\* made of its error marker followed by the error's message, and never raises.
C2_MutationErrorIsString ==
    \A t \in Slots :
        (ClientFailed(t) /\ inv[t].handler \in MutationHandlers) =>
            /\ inv[t].phase = "returned"
            /\ inv[t].result = Ok(JStr(DocumentedMarker(inv[t].handler) \o ClientCall(t).msg))

\* update_story got a 404 and returned its error string
C2_Witness ==
    \E t \in Slots :
        /\ Ended(t) /\ inv[t].handler = "update_story"
        /\ inv[t].outcome.kind = "response" /\ inv[t].outcome.status = 404
        /\ inv[t].phase = "returned"
        /\ inv[t].result.v.k = "str"

\* C3 as stated: no handler invocation ends by propagating a client error:
\* after a failed client call every handler has returned a string or an
\* empty collection.
C3_NoHandlerPropagates ==
    \A t \in Slots :
        ClientFailed(t) =>
            /\ inv[t].phase = "returned"
            /\ inv[t].result.v.k = "str" \/ inv[t].result.v = JList(<<>>)

\* C3 amended: the search handler and the create/update handlers catch every
\* client error at their boundary and return an empty list (search) or a
\* string (create/update); the list/get handlers are not covered.
C3_SearchAndMutationsCatch ==
    \A t \in Slots :
        (ClientFailed(t) /\ inv[t].handler \in MutationHandlers \cup {"search_stories"}) =>
            /\ inv[t].phase = "returned"
            /\ IF inv[t].handler = "search_stories"
               THEN inv[t].result.v = JList(<<>>)
               ELSE inv[t].result.v.k = "str"

\* search_stories met a connection failure and create_label a 500: both returned
C3_Witness ==
    \E t \in Slots :
        /\ ClientFailed(t) /\ inv[t].phase = "returned"
        /\ \/ inv[t].handler = "search_stories" /\ inv[t].outcome.kind = "error"
           \/ inv[t].handler = "create_label" /\ inv[t].outcome.kind = "response"

\* C4: when the GET of a list_* or get_* handler fails, the handler ends by
\* raising the client's error as it is; it returns no value and logs nothing.
C4_ReadHandlersPropagate ==
    \A t \in Slots :
        (ClientFailed(t) /\ inv[t].handler \in ListHandlers \cup GetHandlers) =>
            /\ inv[t].phase = "raised"
            /\ inv[t].result = ClientCall(t)
            /\ inv[t].logged = <<>>

\* get_story got a 404 and raised the HTTPStatusError
C4_Witness ==
    \E t \in Slots :
        /\ inv[t].phase = "raised" /\ inv[t].handler = "get_story"
        /\ inv[t].outcome.kind = "response" /\ inv[t].outcome.status = 404
        /\ inv[t].result.exc = "HTTPStatusError"

\* C5: when the token is unset or empty, the process never gets past start-up:
\* once start-up has run it has raised, the client handle is still None, the
\* server never dispatches a handler and no request is ever made.
C5_NoTokenNoStart ==
    ~Truthy(env.SHORTCUT_API_TOKEN) =>
        /\ pc \in {"boot", "crashed"}
        /\ pc = "crashed" => errlog # <<>>
        /\ client = JNull
        /\ \A t \in Slots : inv[t] = Idle
        /\ transports = 0

\* start-up has raised on an empty token
C5_Witness ==
    /\ pc = "crashed" /\ env.SHORTCUT_API_TOKEN = JStr("")
    /\ client = JNull /\ errlog # <<>>

\* the response of slot t was a 2xx whose body decoded
Decoded(t) ==
    /\ Ended(t) /\ inv[t].outcome.kind = "response"
    /\ inv[t].outcome.status \in 200..299 /\ inv[t].outcome.body.json
Body(t) == inv[t].outcome.body.v

\* every entry of a search result is an object with a type and a data payload
WellFormedEntries(items) ==
    \A i \in 1..Len(items) :
        items[i].k = "dict" /\ {"type", "data"} \subseteq DOMAIN items[i].d

\* the data payloads of the story-typed entries, in the order of the response
StoryPayloads(items) ==
    LET IsStory(item) == item.d.type = JStr("story")
        entries == SelectSeq(items, IsStory)
    IN  [i \in 1..Len(entries) |-> entries[i].d.data]

\* C6: search_stories(q) makes exactly one request, a GET of /search with
\* query=q and page_size=25, and, given a result set of well-formed entries,
\* returns the data payloads of exactly the entries of type "story", in the
\* order of the response (2 items for 2 stories and 1 epic).
C6_SearchReturnsStoryPayloads ==
    \A t \in Slots :
        (inv[t].handler = "search_stories") =>
            /\ Len(inv[t].sent) = 1
            /\ Request(t).method = "GET"
            /\ Request(t).url = client.base_url.s \o "/search"
            /\ DOMAIN Request(t).params.d = {"query", "page_size"}
            /\ Request(t).params.d.page_size = JInt(25)
            /\ Awaiting(t) => Request(t).params.d.query = inv[t].args.query
            /\ ( /\ Decoded(t) /\ Body(t).k = "dict" /\ "data" \in DOMAIN Body(t).d
                 /\ Body(t).d.data.k = "list" /\ WellFormedEntries(Body(t).d.data.l) )
               => /\ inv[t].phase = "returned"
                  /\ inv[t].result.v = JList(StoryPayloads(Body(t).d.data.l))

\* the search for "foo" was answered with story, epic, story and returned the two stories
C6_Witness ==
    \E t \in Slots :
        /\ inv[t].phase = "returned" /\ inv[t].handler = "search_stories"
        /\ Request(t).params.d.query = JStr("foo")
        /\ Decoded(t) /\ Body(t).k = "dict" /\ "data" \in DOMAIN Body(t).d
        /\ Body(t).d.data =
             JList(<< JDict([type |-> JStr("story"), data |-> Entity(1)]),
                      JDict([type |-> JStr("epic"), data |-> Entity(3)]),
                      JDict([type |-> JStr("story"), data |-> Entity(2)]) >>)
        /\ inv[t].result.v = JList(<<Entity(1), Entity(2)>>)

\* the result set of slot t cannot be processed: the body is no object, or
\* its data is a list with an entry lacking its type, or a story lacking its data
Unprocessable(t) ==
    /\ Decoded(t)
    /\ \/ Body(t).k # "dict"
       \/ /\ "data" \in DOMAIN Body(t).d /\ Body(t).d.data.k = "list"
          /\ \E i \in 1..Len(Body(t).d.data.l) :
                LET item == Body(t).d.data.l[i]
                IN  \/ "type" \notin DOMAIN item.d
                    \/ item.d.type = JStr("story") /\ "data" \notin DOMAIN item.d

\* C7: on any failure of search_stories (transport error, non-2xx response,
\* undecodable body, a result set that cannot be processed) it returns the
\* empty list and raises nothing.
C7_SearchFailureIsEmptyList ==
    \A t \in Slots :
        (inv[t].handler = "search_stories" /\ (ClientFailed(t) \/ Unprocessable(t))) =>
            /\ inv[t].phase = "returned"
            /\ inv[t].result = Ok(JList(<<>>))

\* a search met a 500, and another a story entry followed by an entry without type
C7_Witness ==
    \E t \in Slots :
        /\ inv[t].handler = "search_stories" /\ inv[t].phase = "returned"
        /\ inv[t].result = Ok(JList(<<>>))
        /\ \/ ClientFailed(t) /\ inv[t].outcome.kind = "response" /\ inv[t].outcome.status = 500
           \/ /\ Unprocessable(t) /\ Body(t).k = "dict"
              /\ Len(Body(t).d.data.l) = 2
              /\ Body(t).d.data.l[1] = JDict([type |-> JStr("story"), data |-> Entity(1)])

\* C8: update_story(story_id, estimate=0) PUTs to /stories/{story_id} a body
\* with estimate 0, and create_story(name, estimate=0) POSTs a body without
\* the estimate key.
C8_EstimateZeroKeptOnUpdateDroppedOnCreate ==
    \A t \in Slots :
        (Awaiting(t) /\ inv[t].handler \in {"update_story", "create_story"}
                     /\ inv[t].args.estimate = JInt(0)) =>
            IF inv[t].handler = "update_story"
            THEN /\ Request(t).method = "PUT"
                 /\ Request(t).url = client.base_url.s \o "/stories/"
                                        \o ToString(inv[t].args.story_id.i)
                 /\ "estimate" \in DOMAIN Request(t).json.d
                 /\ Request(t).json.d.estimate = JInt(0)
            ELSE /\ Request(t).method = "POST"
                 /\ "estimate" \notin DOMAIN Request(t).json.d

\* update_story(1, estimate=0) is waiting for the answer to its PUT with estimate 0
C8_Witness ==
    \E t \in Slots :
        /\ Awaiting(t) /\ inv[t].handler = "update_story"
        /\ inv[t].args.story_id = JInt(1) /\ inv[t].args.estimate = JInt(0)
        /\ Request(t).json = JDict([estimate |-> JInt(0)])

\* C9: create_story(name=X) with no optional field makes exactly one request,
\* a POST of /stories whose body is {"name": X} and nothing else.
C9_CreateStoryNameOnly ==
    \A t \in Slots :
        (inv[t].handler = "create_story") =>
            /\ Len(inv[t].sent) = 1
            /\ Request(t).method = "POST"
            /\ Request(t).url = client.base_url.s \o "/stories"
            /\ ( /\ Awaiting(t)
                 /\ \A p \in OptionalParams("create_story") : inv[t].args[p] = JNull )
               => Request(t).json = JDict([name |-> inv[t].args.name])

\* create_story(name="X") alone is waiting for the answer to its POST
C9_Witness ==
    \E t \in Slots :
        /\ Awaiting(t) /\ inv[t].handler = "create_story"
        /\ inv[t].args.name = JStr("X")
        /\ \A p \in OptionalParams("create_story") : inv[t].args[p] = JNull
        /\ Request(t).json = JDict([name |-> JStr("X")])

\* the endpoints the interface lists for the entity types that have a get handler
EntityEndpoint(h) ==
    CASE h = "get_member"    -> "/members"
      [] h = "get_story"     -> "/stories"
      [] h = "get_epic"      -> "/epics"
      [] h = "get_milestone" -> "/milestones"
      [] h = "get_project"   -> "/projects"
      [] h = "get_workflow"  -> "/workflows"
      [] h = "get_iteration" -> "/iterations"

\* C10: get_<entity>(id) makes exactly one request, a GET of /<entities>/{id}
\* without query parameters, and returns the decoded body of a 2xx answer unchanged.
C10_GetIssuesOneGetAndReturnsBody ==
    \A t \in Slots :
        (inv[t].handler \in GetHandlers) =>
            /\ Len(inv[t].sent) = 1
            /\ Request(t).method = "GET"
            /\ Request(t).params = JNull
            /\ \E id \in EntityIds \cup MemberIds :
                  /\ Request(t).url = client.base_url.s \o EntityEndpoint(inv[t].handler)
                                         \o "/" \o (IF id.k = "int" THEN ToString(id.i) ELSE id.s)
                  /\ Awaiting(t) => inv[t].args.id = id
            /\ Decoded(t) => inv[t].phase = "returned" /\ inv[t].result.v = Body(t)

\* get_epic(1) was answered 200 with a record and returned that record
C10_Witness ==
    \E t \in Slots :
        /\ inv[t].phase = "returned" /\ inv[t].handler = "get_epic"
        /\ Request(t).url = "https://api.app.shortcut.com/api/v3/epics/1"
        /\ Decoded(t) /\ Body(t) = Entity(7) /\ inv[t].result.v = Entity(7)

-----------------------------------------------------------------------------
(* C11 *)

\* the method of the client call of slot t
CalledMethod(t) == Request(t).method
\* the httpx call of slot t ended with a response
Responded(t) == Ended(t) /\ inv[t].outcome.kind = "response"

\* C11: for each of get, post, put and delete, a response whose status is
\* not 2xx makes the method raise an HTTPStatusError that holds the
\* response's status and body, and nothing is returned; on a 2xx status
\* delete returns the numeric status, and get, post and put return the body
\* parsed as JSON (the body being JSON).
C11_StatusDecidesClientResult ==
    \A t \in Slots :
        Responded(t) /\ CalledMethod(t) \in {"GET", "POST", "PUT", "DELETE"} =>
            LET o == inv[t].outcome
                r == inv[t].result
            IN  IF o.status \notin 200..299
                THEN /\ inv[t].phase = "raised"
                     /\ ~r.ok /\ r.exc = "HTTPStatusError"
                     /\ r.response.status = o.status
                     /\ r.response.body = o.body
                ELSE IF CalledMethod(t) = "DELETE"
                THEN inv[t].phase = "returned" /\ r = Ok(JInt(o.status))
                ELSE o.body.json => inv[t].phase = "returned" /\ r = Ok(o.body.v)

\* delete("/stories/1") answered 204 without a body has returned 204
C11_Witness ==
    \E t \in Slots :
        /\ Responded(t) /\ CalledMethod(t) = "DELETE"
        /\ inv[t].outcome = Response(204, Unparsable)
        /\ inv[t].result = Ok(JInt(204))

-----------------------------------------------------------------------------
(* C12 *)

\* C12: every request of every client method carries the same three
\* headers: Content-Type application/json, the token given at construction
\* under Shortcut-Token, and a User-Agent that is a defined, non-null value.
C12_SameThreeHeaders ==
    \A t \in Slots :
        \A i \in 1..Len(inv[t].sent) :
            LET h == inv[t].sent[i].headers
            IN  /\ DOMAIN h = {"ContentType", "ShortcutToken", "UserAgent"}
                /\ h.ContentType = JStr("application/json")
                /\ h.ShortcutToken = env.SHORTCUT_API_TOKEN
                /\ h.UserAgent.k = "str"

-----------------------------------------------------------------------------
(* C13 *)

\* the POST or PUT of slot t was answered with a 2xx status
Succeeded(t) == Responded(t) /\ inv[t].outcome.status \in 200..299

\* the texts str(e) of the errors a create/update handler can meet once its
\* request was answered 2xx
ShapeErrorTexts ==
    { "'id'", "'app_url'",
      "list indices must be integers or slices, not str",
      "'NoneType' object is not subscriptable",
      "Expecting value: line 1 column 1 (char 0)" }

\* the create/update handler of slot t returned its error string
ReportsError(t) ==
    /\ inv[t].phase = "returned"
    /\ \E m \in ShapeErrorTexts : inv[t].result = Ok(JStr(DocumentedMarker(inv[t].handler) \o m))

\* C13 as stated: whenever the POST or PUT of a create/update handler is
\* answered 2xx, the handler returns a confirmation, never an error.
C13_SuccessNeverReportedAsError ==
    \A t \in Slots :
        (inv[t].handler \in MutationHandlers /\ Succeeded(t)) => ~ReportsError(t)

\* the fields of the response that each confirmation reads
FieldsRead(h) ==
    CASE h \in {"create_story", "create_epic"} -> {"id", "app_url"}
      [] h = "update_story"                    -> {"app_url"}
      [] OTHER                                 -> {"id"}

\* the confirmation each handler words, from the response b and its own request
Confirms(t, b) ==
    LET h    == inv[t].handler
        said == inv[t].result
    IN  CASE h = "create_story" ->
               said = Ok(JStr("Story created successfully with ID " \o ToString(b.d.id.i)
                              \o " and URL " \o b.d.app_url.s))
          [] h = "create_epic" ->
               said = Ok(JStr("Epic created successfully with ID " \o ToString(b.d.id.i)
                              \o " and URL " \o b.d.app_url.s))
          [] h = "update_story" ->
               \E n \in 0..MaxId :
                   /\ Request(t).url = client.base_url.s \o "/stories/" \o ToString(n)
                   /\ said = Ok(JStr("Story " \o ToString(n) \o " updated successfully. URL: "
                                     \o b.d.app_url.s))
          [] h = "create_milestone" ->
               said = Ok(JStr("Milestone created successfully with ID " \o ToString(b.d.id.i)))
          [] h = "create_iteration" ->
               said = Ok(JStr("Iteration created successfully with ID " \o ToString(b.d.id.i)))
          [] h = "create_label" ->
               said = Ok(JStr("Label '" \o Request(t).json.d.name.s
                              \o "' created successfully with ID " \o ToString(b.d.id.i)))

\* C13, amended: a create/update handler whose POST or PUT is answered 2xx
\* with a JSON object holding the fields its confirmation reads returns the
\* confirmation: the response's id (update_story: its story_id argument) and,
\* for the story and epic handlers only, the response's app_url.  Answered
\* 2xx with a body that is not JSON or lacks such a field, it returns its
\* error string.
C13_CompleteResponseConfirmed ==
    \A t \in Slots :
        (inv[t].handler \in MutationHandlers /\ Succeeded(t)) =>
            LET body == inv[t].outcome.body
            IN  IF /\ body.json /\ body.v.k = "dict"
                   /\ FieldsRead(inv[t].handler) \subseteq DOMAIN body.v.d
                THEN inv[t].phase = "returned" /\ Confirms(t, body.v)
                ELSE ReportsError(t)

\* create_milestone answered 200 with a record that has id 7 and an app_url
\* returned the confirmation with the id and without the URL
C13_Witness ==
    \E t \in Slots :
        /\ inv[t].handler = "create_milestone" /\ Succeeded(t)
        /\ inv[t].outcome.body = Parsable(Entity(7))
        /\ inv[t].result = Ok(JStr("Milestone created successfully with ID 7"))

-----------------------------------------------------------------------------
(* C14 *)

\* the key a create/update handler misses first in the 2xx JSON object b
FirstMissing(h, b) ==
    IF "id" \in FieldsRead(h) /\ "id" \notin DOMAIN b.d THEN "id" ELSE "app_url"

\* slot t was answered 2xx with JSON of unexpected shape, and its handler
\* read the missing field: a create/update handler an object without a field
\* of its confirmation, search_stories a list entry without its type or a
\* story entry without its data
ReadMissingField(t) ==
    /\ Decoded(t)
    /\ Body(t).k = "dict"
    /\ \/ /\ inv[t].handler \in MutationHandlers
          /\ ~(FieldsRead(inv[t].handler) \subseteq DOMAIN Body(t).d)
       \/ /\ inv[t].handler = "search_stories"
          /\ Unprocessable(t)

\* C14 as stated: the handler that reads the missing field of a 2xx response
\* of unexpected shape ends with an uncaught key or type error, not with a
\* string or an empty list.
C14_ShapeErrorSurfaces ==
    \A t \in Slots :
        ReadMissingField(t) =>
            /\ inv[t].phase = "raised"
            /\ inv[t].result.exc \in {"KeyError", "TypeError"}

\* C14, amended: the handler that reads the missing field of a 2xx response
\* of unexpected shape catches the key error in its own except branch: a
\* create/update handler returns its error string naming the missing key,
\* search_stories logs the error and returns the empty list; nothing is raised.
C14_ShapeErrorCaught ==
    \A t \in Slots :
        ReadMissingField(t) =>
            /\ inv[t].phase = "returned"
            /\ IF inv[t].handler = "search_stories"
               THEN /\ inv[t].result = Ok(JList(<<>>))
                    /\ inv[t].logged \in { <<"Error searching stories: 'type'">>,
                                            <<"Error searching stories: 'data'">> }
               ELSE inv[t].result =
                        Ok(JStr(DocumentedMarker(inv[t].handler) \o "'"
                                \o FirstMissing(inv[t].handler, Body(t)) \o "'"))

\* create_story answered 200 with a record that has an id and no app_url
\* returned "Error creating story: 'app_url'"
C14_Witness ==
    \E t \in Slots :
        /\ inv[t].handler = "create_story" /\ ReadMissingField(t)
        /\ Body(t) = JDict([id |-> JInt(7), name |-> JStr("N")])
        /\ inv[t].result = Ok(JStr("Error creating story: 'app_url'"))

-----------------------------------------------------------------------------
(* C15 *)

\* the client as the start-up block constructed it from the environment
AsConstructed ==
    [ api_token |-> env.SHORTCUT_API_TOKEN,
      base_url  |-> env.SHORTCUT_API_URL,
      headers   |-> [ ContentType   |-> JStr("application/json"),
                      ShortcutToken |-> env.SHORTCUT_API_TOKEN,
                      UserAgent     |-> env.SHORTCUT_USER_AGENT ] ]

\* C15: after any sequence and interleaving of handler invocations,
\* successful or failed, the client's base_url, api_token and headers are
\* those of its construction, and once no invocation is in flight nothing
\* else of the process has changed: no transport is open, nothing was logged
\* at start-up.
C15_ConfigurationUnchanged ==
    pc = "serving" =>
        /\ client = AsConstructed
        /\ (\A t \in Slots : inv[t].phase # "awaiting") => transports = 0 /\ errlog = <<>>

\* one invocation has returned and another has raised, and the client is as constructed
C15_Witness ==
    \E t, u \in Slots :
        /\ inv[t].phase = "returned" /\ inv[t].outcome.kind = "response"
        /\ inv[u].phase = "raised" /\ inv[u].outcome.kind = "response"
        /\ client = AsConstructed

-----------------------------------------------------------------------------
(* C16 *)

\* C16: no retries.  An invocation that has reached its client call has made
\* exactly one request, while the call is in flight and after the handler
\* has ended, whether the call succeeded or failed with a transport error or
\* a non-2xx status.
C16_OneRequestNoRetry ==
    \A t \in Slots :
        /\ Awaiting(t) => Len(inv[t].sent) = 1
        /\ Ended(t) => Len(inv[t].sent) = 1
        /\ ClientFailed(t) => inv[t].sent = <<Request(t)>>

\* create_label ended after a 500, and its POST is the only request it made
C16_Witness ==
    \E t \in Slots :
        /\ inv[t].handler = "create_label" /\ ClientFailed(t)
        /\ inv[t].outcome.kind = "response" /\ inv[t].outcome.status = 500
        /\ Len(inv[t].sent) = 1 /\ Request(t).method = "POST"

-----------------------------------------------------------------------------
(* C17 *)

\* the slots whose client method is inside its `async with` block
InProgress == {t \in Slots : Awaiting(t)}

\* C17: every client operation opens a transport of its own and closes it
\* before it ends, on success and on every failure (transport error, non-2xx
\* status, undecodable body): the open transports are as many as the
\* operations in progress, one each, and none when no operation is in progress.
C17_OneTransportPerOperationInProgress ==
    /\ transports = Cardinality(InProgress)
    /\ InProgress = {} => transports = 0

\* one operation failed on an undecodable 200 body and has ended, another is
\* in progress: one transport is open
C17_Witness ==
    \E t, u \in Slots :
        /\ inv[t].phase = "raised" /\ inv[t].outcome = Response(200, Unparsable)
        /\ inv[t].result.exc = "JSONDecodeError"
        /\ Awaiting(u)
        /\ transports = 1

-----------------------------------------------------------------------------
(* C18 *)

\* slot t runs a list_* or get_* handler
Reads(t) == inv[t].handler \in ListHandlers \cup GetHandlers

\* C18: no copies, no caches.  Every list_* / get_* invocation makes its own
\* GET and returns the body the remote answered to that GET; of two
\* identical reads answered differently, because the remote changed in
\* between, each returns the answer to its own GET.
C18_ReadsReturnTheirOwnResponse ==
    /\ \A t \in Slots :
          (Reads(t) /\ inv[t].phase # "idle") =>
              /\ Len(inv[t].sent) = 1 /\ Request(t).method = "GET"
              /\ Decoded(t) => inv[t].result = Ok(Body(t))
    /\ \A t, u \in Slots :
          ( /\ Reads(t) /\ Reads(u) /\ Decoded(t) /\ Decoded(u)
            /\ Request(t) = Request(u) /\ Body(t) # Body(u) ) =>
              /\ inv[t].result.v = Body(t) /\ inv[u].result.v = Body(u)
              /\ inv[t].result # inv[u].result

\* two get_story(1): one was answered the record with its app_url, the other,
\* the remote having changed, the record without it; each returned its own
C18_Witness ==
    \E t, u \in Slots :
        /\ inv[t].handler = "get_story" /\ inv[u].handler = "get_story"
        /\ Request(t).url = "https://api.app.shortcut.com/api/v3/stories/1"
        /\ Request(u) = Request(t)
        /\ Decoded(t) /\ Decoded(u)
        /\ inv[t].result = Ok(Entity(7))
        /\ inv[u].result = Ok(JDict([id |-> JInt(7), name |-> JStr("N")]))

-----------------------------------------------------------------------------
(* C19 *)

\* the arguments the ended handler of slot t used after its await: the name
\* of create_label, which its request body still holds
ArgsAfterAwait(t) ==
    IF inv[t].handler = "create_label"
    THEN [name |-> Request(t).json.d.name]
    ELSE JNull

\* C19: with two invocations interleaved, the request each one has in flight
\* is the one its handler builds from its own arguments when it runs alone,
\* and the result each one ended with is the one its handler gives, alone,
\* for its own request and its own response.
C19_InterleavedAsAlone ==
    \A t \in Slots :
        /\ Awaiting(t) =>
              inv[t].sent = <<HttpRequest(client, Method(inv[t].handler),
                                          Endpoint(inv[t].handler, inv[t].args),
                                          Payload(inv[t].handler, inv[t].args))>>
        /\ (Ended(t) /\ inv[t].outcome # NoOutcome) =>
              LET alone == HandlerResult(inv[t].handler, ArgsAfterAwait(t),
                                         ClientResult(Request(t), inv[t].outcome))
              IN  inv[t].result = alone.res /\ inv[t].logged = alone.logged

\* create_label("X") has returned its confirmation while get_epic(1) is
\* awaiting its response
C19_Witness ==
    \E t, u \in Slots :
        /\ inv[t].handler = "create_label"
        /\ inv[t].result = Ok(JStr("Label 'X' created successfully with ID 7"))
        /\ inv[u].handler = "get_epic" /\ Awaiting(u)
        /\ Request(u).url = "https://api.app.shortcut.com/api/v3/epics/1"
        /\ Request(u).method = "GET"
        /\ Request(t).method = "POST"

-----------------------------------------------------------------------------
(* C20 *)

-----------------------------------------------------------------------------
(* C21 *)

\* the collection path of each list handler's entity type
CollectionPath(h) ==
    CASE h = "list_members"    -> "/members"
      [] h = "list_stories"    -> "/stories"
      [] h = "list_epics"      -> "/epics"
      [] h = "list_milestones" -> "/milestones"
      [] h = "list_projects"   -> "/projects"
      [] h = "list_workflows"  -> "/workflows"
      [] h = "list_iterations" -> "/iterations"
      [] h = "list_labels"     -> "/labels"
      [] h = "list_teams"      -> "/teams"

\* C21: every list handler makes exactly one request, a GET of the collection
\* path of its entity type without query parameters, and returns the decoded
\* body of a 2xx answer unchanged.
C21_ListIssuesOneGetAndReturnsBody ==
    \A t \in Slots :
        (inv[t].handler \in ListHandlers) =>
            /\ Len(inv[t].sent) = 1
            /\ Request(t).method = "GET"
            /\ Request(t).url = client.base_url.s \o CollectionPath(inv[t].handler)
            /\ Request(t).params = JNull
            /\ "json" \notin DOMAIN Request(t)
            /\ Decoded(t) => inv[t].phase = "returned" /\ inv[t].result = Ok(Body(t))

\* list_teams was answered 200 with a list of two records and returned that list
C21_Witness ==
    \E t \in Slots :
        /\ inv[t].handler = "list_teams" /\ inv[t].phase = "returned"
        /\ Request(t).url = "https://api.app.shortcut.com/api/v3/teams"
        /\ Decoded(t) /\ Body(t) = JList(<<Entity(7), Entity(8)>>)
        /\ inv[t].result = Ok(JList(<<Entity(7), Entity(8)>>))

-----------------------------------------------------------------------------
(* C22 *)

-----------------------------------------------------------------------------
(* C23 *)

\* the paths the handlers POST to
PostPaths == {"/stories", "/epics", "/milestones", "/iterations", "/labels"}

\* C23: no handler issues a DELETE.  Every request a handler makes is a GET,
\* a POST to /stories, /epics, /milestones, /iterations or /labels, or a PUT
\* to /stories/{story_id}.
C23_NoDeleteOnlyPostAndPutMutate ==
    \A t \in Slots :
        \A i \in 1..Len(inv[t].sent) :
            LET req == inv[t].sent[i]
            IN  /\ req.method # "DELETE"
                /\ req.method \in {"GET", "POST", "PUT"}
                /\ req.method = "POST" =>
                      \E p \in PostPaths : req.url = client.base_url.s \o p
                /\ req.method = "PUT" =>
                      \E n \in 0..MaxId :
                          req.url = client.base_url.s \o "/stories/" \o ToString(n)
                /\ req.method = "GET" <=> inv[t].handler \notin MutationHandlers

\* update_story(0, ...) has ended and its one request was a PUT to /stories/0
C23_Witness ==
    \E t \in Slots :
        /\ inv[t].handler = "update_story" /\ Ended(t)
        /\ Len(inv[t].sent) = 1
        /\ Request(t).method = "PUT"
        /\ Request(t).url = "https://api.app.shortcut.com/api/v3/stories/0"

-----------------------------------------------------------------------------
(* C24 *)

\* C24: the body of create_iteration always holds name, start_date and
\* end_date with the values passed, null for a date that was not supplied;
\* description and group_ids are held exactly when they are truthy
\* (description neither None nor "", group_ids neither None nor []); the
\* body holds no other key.
C24_IterationBodyAlwaysHasDates ==
    \A t \in Slots :
        (inv[t].handler = "create_iteration" /\ Awaiting(t)) =>
            LET a == inv[t].args
                d == Request(t).json.d
            IN  /\ {"name", "start_date", "end_date"} \subseteq DOMAIN d
                /\ DOMAIN d \subseteq {"name", "start_date", "end_date", "description", "group_ids"}
                /\ d.name = a.name
                /\ d.start_date = a.start_date
                /\ d.end_date = a.end_date
                /\ "description" \in DOMAIN d <=> a.description \notin {JNull, JStr("")}
                /\ "group_ids" \in DOMAIN d <=> a.group_ids \notin {JNull, JList(<<>>)}
                /\ "description" \in DOMAIN d => d.description = a.description
                /\ "group_ids" \in DOMAIN d => d.group_ids = a.group_ids

\* create_iteration("X") without dates, description or groups awaits its POST
\* of a body with the three keys, both dates null
C24_Witness ==
    \E t \in Slots :
        /\ inv[t].handler = "create_iteration" /\ Awaiting(t)
        /\ inv[t].args.start_date = JNull /\ inv[t].args.end_date = JNull
        /\ Request(t).json = JDict([name |-> JStr("X"), start_date |-> JNull, end_date |-> JNull])

-----------------------------------------------------------------------------
(* C25 *)

\* update_story was given no field: each optional parameter is absent or
\* falsy, and estimate is None
NoFieldGiven(a) ==
    /\ a.name \in {JNull, JStr("")}
    /\ a.description \in {JNull, JStr("")}
    /\ a.project_id \in {JNull, JInt(0)}
    /\ a.workflow_state_id \in {JNull, JInt(0)}
    /\ a.epic_id \in {JNull, JInt(0)}
    /\ a.estimate = JNull
    /\ a.labels \in {JNull, JList(<<>>)}
    /\ a.owner_ids \in {JNull, JList(<<>>)}

\* C25: update_story(story_id) given no field still makes exactly one
\* request, a PUT to /stories/{story_id} whose body is the empty object.
C25_EmptyUpdateStillPut ==
    \A t \in Slots :
        (inv[t].handler = "update_story" /\ Awaiting(t) /\ NoFieldGiven(inv[t].args)) =>
            /\ Len(inv[t].sent) = 1
            /\ Request(t).method = "PUT"
            /\ Request(t).url = client.base_url.s \o "/stories/"
                                   \o ToString(inv[t].args.story_id.i)
            /\ Request(t).json.k = "dict"
            /\ DOMAIN Request(t).json.d = {}

\* update_story(1) with every optional parameter None awaits its PUT of {}
C25_Witness ==
    \E t \in Slots :
        /\ inv[t].handler = "update_story" /\ Awaiting(t)
        /\ inv[t].args.story_id = JInt(1)
        /\ \A p \in DOMAIN inv[t].args \ {"story_id"} : inv[t].args[p] = JNull
        /\ Request(t).method = "PUT"
        /\ Request(t).url = "https://api.app.shortcut.com/api/v3/stories/1"
        /\ DOMAIN Request(t).json.d = {}

-----------------------------------------------------------------------------
(* C26 *)

\* the parameters of the handler of slot t that go to the body
BodyParams(t) == DOMAIN inv[t].args \ {"story_id"}

\* what the body holds for parameter p of value v: the labels as objects
\* {"name": label} in the order given, every other value as it came
SentValue(p, v) ==
    IF p = "labels"
    THEN JList([i \in 1..Len(v.l) |-> JDict([name |-> v.l[i]])])
    ELSE v

\* C26: in the body of every create/update handler each key is the key of
\* one of its parameters (deadline for create_epic's end_date,
\* started_at_override and completed_at_override for create_milestone's
\* start_date and end_date, the parameter's own name otherwise), and holds
\* that parameter's value unchanged, the labels as a list of {"name": label}
\* objects of the same length and order; a truthy parameter is in the body.
C26_ParameterKeyMapping ==
    \A t \in Slots :
        (inv[t].handler \in MutationHandlers /\ Awaiting(t)) =>
            LET h == inv[t].handler
                a == inv[t].args
                d == Request(t).json.d
            IN  /\ DOMAIN d \subseteq {BodyKey(h, p) : p \in BodyParams(t)}
                /\ \A p \in BodyParams(t) :
                      /\ BodyKey(h, p) \in DOMAIN d => d[BodyKey(h, p)] = SentValue(p, a[p])
                      /\ Truthy(a[p]) => BodyKey(h, p) \in DOMAIN d
                /\ h = "create_epic" => "end_date" \notin DOMAIN d
                /\ h = "create_milestone" => {"start_date", "end_date"} \cap DOMAIN d = {}

\* create_story with the labels label-1, label-2 awaits its POST of a body
\* whose labels are the two objects in that order
C26_Witness ==
    \E t \in Slots :
        /\ inv[t].handler = "create_story" /\ Awaiting(t)
        /\ inv[t].args.labels = JList(<<JStr("label-1"), JStr("label-2")>>)
        /\ Request(t).json.d.labels =
               JList(<<JDict([name |-> JStr("label-1")]), JDict([name |-> JStr("label-2")])>>)

-----------------------------------------------------------------------------
(* C27 *)

\* the search of slot t was answered 2xx with a JSON object that has no
\* "data" key, or whose "data" is null or the empty list
NothingFound(t) ==
    /\ Decoded(t) /\ Body(t).k = "dict"
    /\ \/ "data" \notin DOMAIN Body(t).d
       \/ Body(t).d.data \in {JNull, JList(<<>>)}

\* C27: search_stories answered successfully with no "data" key, or with a
\* "data" that is null or empty, returns the empty list, raises nothing and
\* logs no error.
C27_NoDataIsEmptyListNoLog ==
    \A t \in Slots :
        (inv[t].handler = "search_stories" /\ NothingFound(t)) =>
            /\ inv[t].phase = "returned"
            /\ inv[t].result = Ok(JList(<<>>))
            /\ inv[t].logged = <<>>

\* a search answered 200 with {"data": null} returned [] and logged nothing
C27_Witness ==
    \E t \in Slots :
        /\ inv[t].handler = "search_stories" /\ NothingFound(t)
        /\ Body(t) = JDict([data |-> JNull])
        /\ inv[t].result = Ok(JList(<<>>)) /\ inv[t].logged = <<>>


====
